---- MODULE Spec2Model ----
(***************************************************************************)
(* Credential and session lifecycle of the SyncVeil Express server.        *)
(*                                                                         *)
(* The repository holds two revisions of the same server:                  *)
(*   "server_js" : src/Syncveil/server.js with                             *)
(*                 src/Syncveil/simpleStore-DESKTOP-N9FJDQI.js             *)
(*   "part_001"  : src/unnamed/part_001 (simpleStore, lines 1-12, and the  *)
(*                 server, lines 14-122)                                   *)
(* The variable `variant` fixes which revision a behaviour runs.           *)
(*                                                                         *)
(* Node runs the handlers on one event loop: the synchronous part of a     *)
(* handler is one atomic step, and every `await` of a bcrypt call that     *)
(* goes to the thread pool is a point where other requests are served.     *)
(* Each client holds one session cookie and has at most one request in     *)
(* flight; concurrency is between clients.                                 *)
(***************************************************************************)
EXTENDS Integers, Sequences, FiniteSets, TLC

\* ------------------------------------------------------------------ bounds
MaxRequests == 4

\* The browsers, each with its own session cookie.
Clients == {"c1", "c2"}

\* ------------------------------------------------------------------ inputs
\* The value of a request field that the body does not carry, and of an
\* object property that is absent (JavaScript undefined).
Missing == "undefined"

Salts == {"s1", "s2"}

\* Letter-case folding on the modelled addresses (used by the claims only:
\* the handlers compare with ===).
LowerCase(e) ==
    CASE e = "A@X.com" -> "a@x.com"
      [] OTHER -> e

\* req.body of POST /api/signup: name, age, email, mobile, gender, address,
\* password; any of them may be absent.
Profiles ==
    { [name |-> "Ann", age |-> "30", mobile |-> Missing, gender |-> "f", address |-> Missing] }

SignupBodies(emails, passwords) ==
    { [name |-> p.name, age |-> p.age, mobile |-> p.mobile, gender |-> p.gender,
       address |-> p.address, email |-> e, password |-> pw] :
        p \in Profiles, e \in emails, pw \in passwords }

LoginBodies(emails, passwords) == [email : emails, password : passwords]

\* Well-formed requests: two addresses, two passwords.
PlainEmails == {"a@x.com", "b@x.com"}
PlainPasswords == {"p1", "p2"}

\* Addresses that differ in letter case only.
CaseEmails == {"a@x.com", "A@X.com"}
CasePasswords == {"p1"}

\* Requests sent while the users file may be unreadable.
FaultEmails == {"a@x.com", "b@x.com"}
FaultPasswords == {"p1"}

\* Requests sent while time passes.
TimeEmails == {"a@x.com"}
TimePasswords == {"p1"}

\* Requests that leave the email or the password out.
PartEmails == {"a@x.com", Missing}
PartPasswords == {"p1", Missing}

\* ------------------------------------------------------------------- state
VARIABLES
    variant,    \* which revision of the server runs
    alive,      \* the node process is running
    file,       \* data/users.json: the array of user records
    readable,   \* the file can be read and parsed
    session,    \* session[c]: req.session.userId of client c's session
    req,        \* req[c]: the request of client c being handled
    last,       \* last[c]: the last request of client c and its response
    auth,       \* auth[c]: history of c's session: "never" logged in by
                \* login, "login" since the last logout, or "revoked"
    nextId,     \* source of fresh uuidv4 values
    nreq,       \* number of requests received so far
    now,        \* the time, in hours since the process first started
    issued,     \* issued[c]: the time c's session cookie was set
    tokens,     \* the verification tokens that were issued
    verified,   \* the ids of the users marked verified
    consumed    \* the outcome of the last token consumption

\* The state of the verification token issuer.
tvars == <<tokens, verified, consumed>>

vars == <<variant, alive, file, readable, session, req, last, auth, nextId, nreq,
          now, issued, tokens, verified, consumed>>

\* req.session.userId of a session that never had it set, or was destroyed.
NoSession == 0

Idle == [pc |-> "idle"]
NoRequest == [op |-> "none"]

\* No token consumption has been attempted.
NoConsume == [token |-> 0, result |-> "none", user_id |-> 0]

\* ---------------------------------------------------------------- responses
\* res.status(s).json(...): the status, the body's `error`, the body's
\* `success`, and the body's `user` (a set holding the object, or empty).
Json(status, error, success, user) ==
    [status |-> status, error |-> error, success |-> success, user |-> user]

Success == Json(200, "", TRUE, {})
EmailExists == Json(400, "Email already exists", FALSE, {})
InvalidCredentials == Json(400, "Invalid credentials", FALSE, {})
NotLoggedIn == Json(401, "Not logged in", FALSE, {})
UserNotFound == Json(401, "User not found", FALSE, {})
ServerError == Json(500, "Server error", FALSE, {})
\* Express's default handler for an error thrown synchronously by a route.
ExpressError == Json(500, "Internal Server Error", FALSE, {})
\* The request was never answered.
NoResponse == Json(0, "", FALSE, {})

\* ------------------------------------------------------------------ objects
\* obj.f, undefined when the property is absent.
Field(obj, f) == IF f \in DOMAIN obj THEN obj[f] ELSE Missing

\* The object without the properties in `drop`.
Without(obj, drop) == [f \in (DOMAIN obj) \ drop |-> obj[f]]

\* JSON.stringify of a user object: properties whose value is undefined are
\* left out; JSON.parse gives back what was written. (id and password_hash
\* are never undefined: uuidv4() and the resolved bcrypt.hash.)
Stringify(obj) ==
    LET absent == {f \in (DOMAIN obj) \ {"id", "password_hash"} : obj[f] = Missing}
    IN  Without(obj, absent)

\* ------------------------------------------------------------------- bcrypt
\* The digest bcrypt derives from a salt and a plaintext: one-way and, for
\* the inputs of the model, free of collisions.
Digest(salt, plain) == <<"digest", salt, plain>>

\* bcrypt.hash(password, 10) with the salt it drew: the salt is embedded in
\* the output.
BcryptHash(plain, salt) == [cost |-> 10, salt |-> salt, digest |-> Digest(salt, plain)]

\* A compare that hashes the plaintext with a salt of its own.
BcryptCompareFreshSalt(plain, hash) == Digest("s0", plain) = hash.digest

\* bcrypt.compare(password, hash): derives the digest again with the salt
\* embedded in the hash.
BcryptCompare(plain, hash) == Digest(hash.salt, plain) = hash.digest

\* A bcrypt that hashes and compares whatever it is given.
BcryptNeverRejects(plain) == FALSE

\* bcrypt rejects when the data argument is null or undefined, both in hash
\* and in compare.
BcryptRejects(plain) == plain = Missing

\* ------------------------------------------------------------- simpleStore
\* A module initialisation that writes [] whether users.json exists or not.
InitStoreOverwrites(exists, content) == <<>>

\* Module initialisation: if (!fs.existsSync(file)) writeFileSync(file, '[]').
\* The users of users.json afterwards, given whether the file existed and
\* what it held.
InitStore(exists, content) == IF ~exists THEN <<>> ELSE content

\* readAll(): server_js catches every read or parse error and returns [];
\* part_001 lets the error escape.
readAll ==
    IF readable THEN [threw |-> FALSE, users |-> file]
    ELSE IF variant = "server_js" THEN [threw |-> FALSE, users |-> <<>>]
    ELSE [threw |-> TRUE, users |-> <<>>]

\* writeAll(arr): the file afterwards holds JSON.stringify(arr).
writeAll(arr) == [i \in 1..Len(arr) |-> Stringify(arr[i])]

\* users.find(u => u.email === email): the first match, as a set of at most
\* one element.
FindByEmail(users, email) ==
    LET hits == {i \in 1..Len(users) : Field(users[i], "email") = email}
    IN  IF hits = {} THEN {}
        ELSE {users[CHOOSE i \in hits : \A j \in hits : i <= j]}

\* u.id === req.session.userId
IdIs(u, userId) ==
    IF userId = NoSession THEN "id" \notin DOMAIN u
    ELSE "id" \in DOMAIN u /\ u.id = userId

\* users.find(u => u.id === req.session.userId)
FindById(users, userId) ==
    LET hits == {i \in 1..Len(users) : IdIs(users[i], userId)}
    IN  IF hits = {} THEN {}
        ELSE {users[CHOOSE i \in hits : \A j \in hits : i <= j]}

\* Mutant of Info: the rest pattern keeps password_hash.
InfoKeepsHash(user) == user

\* const { password_hash, ...info } = user
Info(user) == Without(user, {"password_hash"})

\* ---------------------------------------------------------------- requests
\* What is recorded about a request when its handler starts: the operation,
\* the email and password of its body, whether the lookup found a user, and
\* the session's user id on arrival.
Entry(c, op, body, found) ==
    [op |-> op, email |-> Field(body, "email"), password |-> Field(body, "password"),
     found |-> found, sessBefore |-> session[c]]

\* The record of a request once it has ended with response `resp`. `raced`
\* holds the clients whose signup for the same email was answered with
\* success while this request was being handled.
Ended(entry, resp, raced) ==
    [op |-> entry.op, email |-> entry.email, password |-> entry.password,
     found |-> entry.found, sessBefore |-> entry.sessBefore,
     resp |-> resp, raced |-> raced]

\* res.json / res.status(..).json: the handler of client c answers.
Reply(c, entry, resp, raced) ==
    /\ last' = [last EXCEPT ![c] = Ended(entry, resp, raced)]
    /\ req' = [req EXCEPT ![c] = Idle]

\* The process exits: the in-memory session store is gone and no request in
\* flight is answered. `entry` is the request whose handler was running.
ProcessExit(c, entry, raced) ==
    /\ alive' = FALSE
    /\ session' = [d \in Clients |-> NoSession]
    /\ issued' = [d \in Clients |-> 0]
    /\ req' = [d \in Clients |-> Idle]
    /\ last' = [d \in Clients |->
                 IF d = c THEN Ended(entry, NoResponse, raced)
                 ELSE IF req[d].pc # "idle"
                      THEN Ended(req[d].entry, NoResponse, req[d].raced)
                      ELSE last[d]]

\* An error escapes an async handler. part_001 wraps the handler body in
\* try/catch and answers 500. server_js has no handler for it: the promise
\* is rejected, Express 4 never answers the request, and depending on the
\* node version the unhandled rejection is only logged or ends the process.
AsyncThrow(c, entry, raced) ==
    IF variant = "part_001"
    THEN /\ Reply(c, entry, ServerError, raced)
         /\ UNCHANGED <<alive, session, issued>>
    ELSE \/ /\ Reply(c, entry, NoResponse, raced)
            /\ UNCHANGED <<alive, session, issued>>
         \/ ProcessExit(c, entry, raced)

\* -------------------------------------------------------------------- Init
\* simpleStore creates data/users.json holding [] when it does not exist;
\* no session exists and no request has been received.
Init ==
    /\ variant \in {"server_js", "part_001"}
    /\ alive = TRUE
    /\ file = InitStore(FALSE, <<>>)
    /\ readable = TRUE
    /\ session = [c \in Clients |-> NoSession]
    /\ req = [c \in Clients |-> Idle]
    /\ last = [c \in Clients |-> NoRequest]
    /\ auth = [c \in Clients |-> "never"]
    /\ nextId = 1
    /\ nreq = 0
    /\ now = 0
    /\ issued = [c \in Clients |-> 0]
    /\ tokens = <<>>
    /\ verified = {}
    /\ consumed = NoConsume

\* A client sends a request: the process runs, the client has no request in
\* flight.
Accepts(c) ==
    /\ alive
    /\ req[c].pc = "idle"
    /\ nreq < MaxRequests

\* ----------------------------------------------------------- POST /api/signup
\* A signup that logs the session in as the user who owns the email.
SignupStartLogsIn(c, body) ==
    /\ Accepts(c)
    /\ nreq' = nreq + 1
    /\ LET r == readAll
           entry == Entry(c, "signup", body, FindByEmail(r.users, body.email) # {})
       IN  IF r.threw
           THEN AsyncThrow(c, entry, {})
           ELSE IF FindByEmail(r.users, body.email) # {}
           THEN /\ Reply(c, entry, EmailExists, {})
                /\ session' = [session EXCEPT ![c] =
                                 (CHOOSE u \in FindByEmail(r.users, body.email) : TRUE).id]
                /\ UNCHANGED <<alive, issued>>
           ELSE IF BcryptRejects(body.password)
           THEN AsyncThrow(c, entry, {})
           ELSE /\ req' = [req EXCEPT ![c] =
                             [pc |-> "hashing", entry |-> entry, body |-> body,
                              users |-> r.users,
                              raced |-> {}]]
                /\ UNCHANGED <<alive, session, issued, last>>
    /\ UNCHANGED <<variant, file, readable, auth, nextId, now, tvars>>

\* Up to `await bcrypt.hash(password, 10)`: read the store, look for the
\* email, start hashing.
SignupStart(c, body) ==
    /\ Accepts(c)
    /\ nreq' = nreq + 1
    /\ LET r == readAll
           entry == Entry(c, "signup", body, FindByEmail(r.users, body.email) # {})
       IN  IF r.threw
           THEN AsyncThrow(c, entry, {})
           ELSE IF FindByEmail(r.users, body.email) # {}
           THEN /\ Reply(c, entry, EmailExists, {})
                /\ UNCHANGED <<alive, session, issued>>
           ELSE IF BcryptRejects(body.password)
           THEN AsyncThrow(c, entry, {})
           ELSE /\ req' = [req EXCEPT ![c] =
                             [pc |-> "hashing", entry |-> entry, body |-> body,
                              users |-> r.users,
                              raced |-> {}]]
                /\ UNCHANGED <<alive, session, issued, last>>
    /\ UNCHANGED <<variant, file, readable, auth, nextId, now, tvars>>

\* A user object whose id does not come from uuidv4().
NewUserFixedId(body, id, password_hash) ==
    [id |-> 1, name |-> body.name, age |-> body.age, email |-> body.email,
     mobile |-> body.mobile, gender |-> body.gender, address |-> body.address,
     password_hash |-> password_hash]

\* The user object that signup builds from the body, the id and the hash.
NewUser(body, id, password_hash) ==
    [id |-> id, name |-> body.name, age |-> body.age, email |-> body.email,
     mobile |-> body.mobile, gender |-> body.gender, address |-> body.address,
     password_hash |-> password_hash]

\* After the hash has resolved: push the user on the array that was read
\* before the await, write the array, (part_001: log the session in,)
\* answer.
SignupFinish(c) ==
    /\ alive
    /\ req[c].pc = "hashing"
    /\ \E salt \in Salts :
         LET body == req[c].body
             user == NewUser(body, nextId, BcryptHash(body.password, salt))
             users == Append(req[c].users, user)
         IN  /\ file' = writeAll(users)
             /\ readable' = TRUE
             /\ session' = IF variant = "part_001"
                           THEN [session EXCEPT ![c] = user.id]
                           ELSE session
             /\ issued' = IF variant = "part_001"
                          THEN [issued EXCEPT ![c] = now]
                          ELSE issued
             /\ last' = [last EXCEPT ![c] = Ended(req[c].entry, Success, req[c].raced)]
             /\ req' = [d \in Clients |->
                          IF d = c THEN Idle
                          ELSE IF /\ req[d].pc = "hashing"
                                  /\ req[d].entry.email = body.email
                               THEN [req[d] EXCEPT !.raced = @ \cup {c}]
                               ELSE req[d]]
    /\ nextId' = nextId + 1
    /\ UNCHANGED <<variant, alive, auth, nreq, now, tvars>>

\* ------------------------------------------------------------ POST /api/login
\* Up to `await bcrypt.compare(password, user.password_hash)`.
LoginStart(c, body) ==
    /\ Accepts(c)
    /\ nreq' = nreq + 1
    /\ LET r == readAll
           found == FindByEmail(r.users, body.email)
           entry == Entry(c, "login", body, found # {})
       IN  IF r.threw
           THEN AsyncThrow(c, entry, {})
           ELSE IF found = {}
           THEN /\ Reply(c, entry, InvalidCredentials, {})
                /\ UNCHANGED <<alive, session, issued>>
           ELSE IF BcryptRejects(body.password)
           THEN AsyncThrow(c, entry, {})
           ELSE /\ req' = [req EXCEPT ![c] =
                             [pc |-> "comparing", entry |-> entry,
                              password |-> body.password, user |-> found,
                              raced |-> {}]]
                /\ UNCHANGED <<alive, session, issued, last>>
    /\ UNCHANGED <<variant, file, readable, auth, nextId, now, tvars>>

\* A login that writes the user it found back to the store.
LoginFinishWritesBack(c) ==
    /\ alive
    /\ req[c].pc = "comparing"
    /\ LET user == CHOOSE u \in req[c].user : TRUE
           match == BcryptCompare(req[c].password, user.password_hash)
       IN  /\ file' = writeAll(<<user>>)
           /\ IF ~match
              THEN /\ Reply(c, req[c].entry, InvalidCredentials, {})
                   /\ UNCHANGED <<session, issued, auth>>
              ELSE /\ session' = [session EXCEPT ![c] = user.id]
                   /\ issued' = [issued EXCEPT ![c] = now]
                   /\ auth' = [auth EXCEPT ![c] = "login"]
                   /\ Reply(c, req[c].entry, Success, {})
    /\ UNCHANGED <<variant, alive, readable, nextId, nreq, now, tvars>>

\* A login that ends the session when the password does not match.
LoginFinishDropsSession(c) ==
    /\ alive
    /\ req[c].pc = "comparing"
    /\ LET user == CHOOSE u \in req[c].user : TRUE
           match == BcryptCompare(req[c].password, user.password_hash)
       IN  IF ~match
           THEN /\ Reply(c, req[c].entry, InvalidCredentials, {})
                /\ session' = [session EXCEPT ![c] = NoSession]
                /\ UNCHANGED <<issued, auth>>
           ELSE /\ session' = [session EXCEPT ![c] = user.id]
                /\ issued' = [issued EXCEPT ![c] = now]
                /\ auth' = [auth EXCEPT ![c] = "login"]
                /\ Reply(c, req[c].entry, Success, {})
    /\ UNCHANGED <<variant, alive, file, readable, nextId, nreq, now, tvars>>

\* After the comparison has resolved.
LoginFinish(c) ==
    /\ alive
    /\ req[c].pc = "comparing"
    /\ LET user == CHOOSE u \in req[c].user : TRUE
           match == BcryptCompare(req[c].password, user.password_hash)
       IN  IF ~match
           THEN /\ Reply(c, req[c].entry, InvalidCredentials, {})
                /\ UNCHANGED <<session, issued, auth>>
           ELSE /\ session' = [session EXCEPT ![c] = user.id]
                /\ issued' = [issued EXCEPT ![c] = now]
                /\ auth' = [auth EXCEPT ![c] = "login"]
                /\ Reply(c, req[c].entry, Success, {})
    /\ UNCHANGED <<variant, alive, file, readable, nextId, nreq, now, tvars>>

\* --------------------------------------------------------------- GET /api/me
\* server_js looks the session's user id up at once; part_001 first answers
\* 401 when the session has no user id, and destroys the session when the
\* id matches no user.
Me(c) ==
    /\ Accepts(c)
    /\ nreq' = nreq + 1
    /\ LET entry == Entry(c, "me", <<>>, FALSE)
       IN  IF variant = "part_001" /\ session[c] = NoSession
           THEN /\ Reply(c, entry, NotLoggedIn, {})
                /\ UNCHANGED <<session, issued>>
           ELSE LET r == readAll
                    found == FindById(r.users, session[c])
                IN  IF r.threw
                    THEN /\ Reply(c, entry, ExpressError, {})
                         /\ UNCHANGED <<session, issued>>
                    ELSE IF found = {}
                    THEN IF variant = "part_001"
                         THEN /\ session' = [session EXCEPT ![c] = NoSession]
                              /\ issued' = [issued EXCEPT ![c] = 0]
                              /\ Reply(c, entry, UserNotFound, {})
                         ELSE /\ Reply(c, entry, NotLoggedIn, {})
                              /\ UNCHANGED <<session, issued>>
                    ELSE /\ Reply(c, entry,
                                  Json(200, "", FALSE, {Info(u) : u \in found}),
                                  {})
                         /\ UNCHANGED <<session, issued>>
    /\ UNCHANGED <<variant, alive, file, readable, auth, nextId, now, tvars>>

\* ----------------------------------------------------------- POST /api/logout
\* A logout that refuses a session without a user id.
LogoutWhenLoggedIn(c) ==
    /\ Accepts(c)
    /\ nreq' = nreq + 1
    /\ session' = [session EXCEPT ![c] = NoSession]
    /\ issued' = [issued EXCEPT ![c] = 0]
    /\ auth' = [auth EXCEPT ![c] = "revoked"]
    /\ Reply(c, Entry(c, "logout", <<>>, FALSE),
             IF session[c] = NoSession THEN NotLoggedIn ELSE Success, {})
    /\ UNCHANGED <<variant, alive, file, readable, nextId, now, tvars>>

Logout(c) ==
    /\ Accepts(c)
    /\ nreq' = nreq + 1
    /\ session' = [session EXCEPT ![c] = NoSession]
    /\ issued' = [issued EXCEPT ![c] = 0]
    /\ auth' = [auth EXCEPT ![c] = "revoked"]
    /\ Reply(c, Entry(c, "logout", <<>>, FALSE), Success, {})
    /\ UNCHANGED <<variant, alive, file, readable, nextId, now, tvars>>

\* -------------------------------------------------------------- the process
\* node server.js is started again: simpleStore is initialised with the
\* users.json that the first start created, the session store starts empty.
Restart ==
    /\ ~alive
    /\ alive' = TRUE
    /\ file' = InitStore(TRUE, file)
    /\ UNCHANGED <<variant, readable, session, req, last, auth, nextId, nreq,
                   now, issued, tvars>>

\* users.json can no longer be read or parsed (it was removed, truncated or
\* edited by hand): fs.readFileSync or JSON.parse will throw.
FileFails ==
    /\ alive
    /\ readable
    /\ readable' = FALSE
    /\ UNCHANGED <<variant, alive, file, session, req, last, auth, nextId, nreq,
                   now, issued, tvars>>

\* ------------------------------------------------------------------- time
\* cookie: { maxAge: 1000 * 60 * 60 * 24 }, in hours.
SessionMaxAge == 24

\* The number of half days that pass.
MaxTicks == 3

\* Twelve hours pass.  A browser drops a session cookie whose maxAge has
\* elapsed: part_001 sets maxAge, server_js sets none and its cookie lasts
\* as long as the browser session.
Tick ==
    /\ now < 12 * MaxTicks
    /\ now' = now + 12
    /\ LET expired == {c \in Clients : /\ variant = "part_001"
                                       /\ session[c] # NoSession
                                       /\ issued[c] + SessionMaxAge <= now'}
       IN  /\ session' = [c \in Clients |->
                            IF c \in expired THEN NoSession ELSE session[c]]
           /\ issued' = [c \in Clients |-> IF c \in expired THEN 0 ELSE issued[c]]
    /\ UNCHANGED <<variant, alive, file, readable, req, last, auth, nextId, nreq, tvars>>

\* ------------------------------------------------ verification token issuer
\* The hours a verification token stays valid.
TokenTTL == 24

\* The number of tokens issued.
MaxTokens == 2

\* The ids of the users in the store.
UserIds == {file[i].id : i \in 1..Len(file)}

\* issue(user_id): a fresh token for the user, valid for TokenTTL hours.
\* `wins` counts the consumptions of the token that succeeded.
IssueToken(uid) ==
    /\ uid \in UserIds
    /\ Len(tokens) < MaxTokens
    /\ tokens' = Append(tokens, [user_id |-> uid, expires_at |-> now + TokenTTL,
                                 consumed |-> FALSE, wins |-> 0])
    /\ UNCHANGED <<variant, alive, file, readable, session, req, last, auth, nextId,
                   nreq, now, issued, verified, consumed>>

\* A consume that does not look at the consumed flag.
ConsumeOutcomeReusable(t) ==
    IF t \notin DOMAIN tokens THEN "NotFound"
    ELSE IF now > tokens[t].expires_at THEN "Expired"
    ELSE "ok"

\* A consume that does not look at the expiry.
ConsumeOutcomeForever(t) ==
    IF t \notin DOMAIN tokens THEN "NotFound"
    ELSE IF tokens[t].consumed THEN "AlreadyConsumed"
    ELSE "ok"

\* The outcome of consume(t).
ConsumeOutcome(t) ==
    IF t \notin DOMAIN tokens THEN "NotFound"
    ELSE IF tokens[t].consumed THEN "AlreadyConsumed"
    ELSE IF now > tokens[t].expires_at THEN "Expired"
    ELSE "ok"

\* verifyEmail(token): consume(t) in one atomic step; on success the token
\* is marked consumed and its user is marked verified.
ConsumeToken(t) ==
    LET outcome == ConsumeOutcome(t)
    IN  /\ consumed' = [token |-> t, result |-> outcome,
                        user_id |-> IF outcome = "ok" THEN tokens[t].user_id ELSE 0]
        /\ tokens' = IF outcome = "ok"
                     THEN [tokens EXCEPT ![t].consumed = TRUE, ![t].wins = @ + 1]
                     ELSE tokens
        /\ verified' = IF outcome = "ok"
                       THEN verified \cup {tokens[t].user_id}
                       ELSE verified
        /\ UNCHANGED <<variant, alive, file, readable, session, req, last, auth,
                       nextId, nreq, now, issued>>

\* The signups of the clients, with bodies of the given emails and
\* passwords.
Signups(emails, passwords) ==
    \/ \E c \in Clients, body \in SignupBodies(emails, passwords) : SignupStart(c, body)
    \/ \E c \in Clients : SignupFinish(c)

\* The requests of the clients, with bodies of the given emails and
\* passwords.
Requests(emails, passwords) ==
    \/ \E c \in Clients, body \in SignupBodies(emails, passwords) : SignupStart(c, body)
    \/ \E c \in Clients : SignupFinish(c)
    \/ \E c \in Clients, body \in LoginBodies(emails, passwords) : LoginStart(c, body)
    \/ \E c \in Clients : LoginFinish(c)
    \/ \E c \in Clients : Me(c)
    \/ \E c \in Clients : Logout(c)

\* Well-formed requests only: no handler throws, the process never exits.
Next == Requests(PlainEmails, PlainPasswords)

Spec == Init /\ [][Next]_vars

\* Requests with addresses that differ in letter case only.
NextCase == Requests(CaseEmails, CasePasswords)

SpecCase == Init /\ [][NextCase]_vars

\* Requests that may leave the email or the password out: bcrypt rejects,
\* and the process may exit and be started again.
NextPart ==
    \/ Requests(PartEmails, PartPasswords)
    \/ Restart

SpecPart == Init /\ [][NextPart]_vars

\* Requests while users.json may become unreadable.
NextFault ==
    \/ Requests(FaultEmails, FaultPasswords)
    \/ FileFails

SpecFault == Init /\ [][NextFault]_vars

\* Requests while time passes.
NextTime ==
    \/ Requests(TimeEmails, TimePasswords)
    \/ Tick

SpecTime == Init /\ [][NextTime]_vars

\* Signups, and the verification tokens of the users they create, while
\* time passes.
NextToken ==
    \/ Signups(TimeEmails, TimePasswords)
    \/ Tick
    \/ \E uid \in UserIds : IssueToken(uid)
    \/ \E t \in 1..MaxTokens : ConsumeToken(t)

SpecToken == Init /\ [][NextToken]_vars

\* ================================================================== claims
\* The emails of the records in the users file.
StoredEmails == {Field(file[i], "email") : i \in 1..Len(file)}

\* The records of the users file whose email is e.
RecordsOf(e) == {i \in 1..Len(file) : Field(file[i], "email") = e}

\* Client c's last request was a signup answered with success.
SignedUp(c) == last[c].op = "signup" /\ last[c].resp = Success

\* user.email_verified is set and true.
EmailVerified(u) == "email_verified" \in DOMAIN u /\ u["email_verified"] = TRUE

\* C1: of two signups with the same email that run concurrently exactly one
\* succeeds (no signup is answered with success when a signup for the same
\* email was answered with success while it was being handled), and no two
\* records of the store have the same email.
C1_ConcurrentSignupsExclusive ==
    /\ \A c \in Clients : SignedUp(c) => last[c].raced = {}
    /\ \A i, j \in 1..Len(file) :
         Field(file[i], "email") = Field(file[j], "email") => i = j

\* C2: every signup with an email that is not in the store succeeds, and
\* after a signup has succeeded the store holds exactly one record with its
\* email: no record is lost to another signup's write.
C2_DistinctSignupsAllStored ==
    \A c \in Clients :
        /\ (last[c].op = "signup" /\ ~last[c].found) => last[c].resp = Success
        /\ SignedUp(c) => Cardinality(RecordsOf(last[c].email)) = 1

\* C3: a signup whose email equals, ignoring letter case, the email of a
\* record in the store is answered with the duplicate-email error (it does
\* not get past the duplicate check), and the store never holds two records
\* whose emails are equal ignoring letter case.
C3_CaseInsensitiveDuplicate ==
    [][ /\ \A c \in Clients :
             (req[c].pc = "idle" /\ req'[c].pc = "hashing")
                 => LowerCase(req'[c].entry.email)
                        \notin {LowerCase(e) : e \in StoredEmails}
        /\ \A i, j \in 1..Len(file') :
             LowerCase(Field(file'[i], "email")) = LowerCase(Field(file'[j], "email"))
                 => i = j ]_vars

\* C4: a login whose password matches the hash of a user whose email is not
\* verified fails, with an error other than InvalidCredentials, and leaves
\* the session without a new user id.
C4_UnverifiedLoginRejected ==
    [][ \A c \in Clients :
          (/\ LoginFinish(c)
           /\ \E u \in req[c].user :
                /\ BcryptCompare(req[c].password, u.password_hash)
                /\ ~EmailVerified(u))
              => /\ ~last'[c].resp.success
                 /\ last'[c].resp # InvalidCredentials
                 /\ session'[c] = session[c] ]_vars

\* Client c's last request was a login that did not succeed.
LoginFailed(c) == last[c].op = "login" /\ last[c].resp # Success

\* C5: a failed login for an email that matches no user and a failed login
\* for an email that matches a user get the same response, and a failed
\* login puts no user id on the session.
C5_LoginFailuresIndistinguishable ==
    /\ \A c, d \in Clients :
         (LoginFailed(c) /\ LoginFailed(d) /\ ~last[c].found /\ last[d].found)
             => last[c].resp = last[d].resp
    /\ \A c \in Clients :
         LoginFailed(c) => session[c] \in {last[c].sessBefore, NoSession}

\* C6: whoAmI on a session whose last request was a successful login with
\* email e returns the profile of the user with email e, and of no other.
C6_WhoAmIAfterLogin ==
    [][ \A c \in Clients :
          (Me(c) /\ last[c].op = "login" /\ last[c].resp = Success)
              => /\ last'[c].resp.status = 200
                 /\ last'[c].resp.user # {}
                 /\ \A u \in last'[c].resp.user :
                      Field(u, "email") = last[c].email ]_vars

\* C7: every session that carries a user id resolves to exactly one record
\* of the store.
C7_SessionResolves ==
    \A c \in Clients :
        session[c] # NoSession
            => Cardinality({i \in 1..Len(file) : IdIs(file[i], session[c])}) = 1

\* C8: whoAmI on a session that was logged out, and on which no login has
\* succeeded since, fails with 401 and returns no profile.
C8_WhoAmIAfterLogout ==
    [][ \A c \in Clients :
          (Me(c) /\ auth[c] = "revoked")
              => last'[c].resp.status = 401 /\ last'[c].resp.user = {} ]_vars

\* C9: no response carries a password_hash or a password, and a successful
\* whoAmI returns every stored field of the session's user but
\* password_hash.
C9_NoHashInResponses ==
    [][ \A c \in Clients :
          /\ last'[c].op # "none" =>
               /\ \A u \in last'[c].resp.user :
                    DOMAIN u \cap {"password_hash", "password"} = {}
               /\ last'[c].password # Missing
                    => last'[c].resp.error # last'[c].password
          /\ (Me(c) /\ last'[c].resp.status = 200) =>
               \E i \in 1..Len(file) :
                 /\ IdIs(file[i], session[c])
                 /\ "password_hash" \in DOMAIN file[i]
                 /\ \E u \in last'[c].resp.user :
                      /\ last'[c].resp.user = {u}
                      /\ DOMAIN u = (DOMAIN file[i]) \ {"password_hash"}
                      /\ \A f \in DOMAIN u : u[f] = file[i][f] ]_vars

\* C9 witness: a whoAmI has returned the profile of a stored user.
C9_Witness ==
    \E c \in Clients :
        /\ last[c].op = "me"
        /\ last[c].resp.status = 200
        /\ \E u \in last[c].resp.user, i \in 1..Len(file) :
             /\ file[i].id = u.id
             /\ "password_hash" \in DOMAIN file[i]

\* C10: whoAmI on a client that was not logged in and whose last request was
\* a successful signup fails with 401.
C10_SignupIssuesNoSession ==
    [][ \A c \in Clients :
          (Me(c) /\ SignedUp(c) /\ last[c].sessBefore = NoSession)
              => last'[c].resp.status = 401 /\ last'[c].resp.user = {} ]_vars

\* C11: logout always succeeds and is idempotent.  Every logout is answered
\* with success and leaves the session without a user id, whether the session
\* was logged in, never logged in or already logged out; a logout that
\* follows a logout of the same client changes neither a session nor the
\* store, and is answered as the first one was.
C11_LogoutIdempotent ==
    [][\A c \in Clients :
          Logout(c) =>
              /\ last'[c].resp = Success
              /\ session'[c] = NoSession
              /\ file' = file
              /\ last[c].op = "logout" =>
                     /\ session' = session
                     /\ last'[c].resp = last[c].resp]_vars

\* One client logged out of a session that carried a user id, another out of
\* a session that carried none.
C11_Witness ==
    \E c, d \in Clients :
        /\ last[c].op = "logout" /\ last[c].sessBefore # NoSession
        /\ last[d].op = "logout" /\ last[d].sessBefore = NoSession

\* C12: whoAmI returns a profile only for a session whose user id was set by
\* a successful login that no logout has revoked since; for every other
\* session it answers 401 and returns no profile, whatever the store holds.
C12_WhoAmINeedsAuthentication ==
    [][\A c \in Clients :
          Me(c) /\ auth[c] # "login" =>
              /\ last'[c].resp.status = 401
              /\ last'[c].resp.user = {}]_vars

\* C13: user records are never deleted.  The email of a signup answered with
\* success is in the store when the answer is sent, and an email that is in
\* the store is in the store after every step, whatever request follows and
\* whatever the reads of the store returned.
C13_RecordsNeverDeleted ==
    [][/\ \A e \in StoredEmails : e \in StoredEmails'
       /\ \A c \in Clients :
            (SignupFinish(c) /\ last'[c].resp = Success) =>
                last'[c].email \in StoredEmails']_vars

\* The handler of the step reads the store for client c's login or whoAmI
\* while the users file cannot be read.
ReadFails(c) ==
    /\ ~readable
    /\ \/ \E body \in LoginBodies(FaultEmails, FaultPasswords) : LoginStart(c, body)
       \/ Me(c) /\ ~(variant = "part_001" /\ session[c] = NoSession)

\* C14: when reading the user store fails, login and whoAmI answer with a
\* failure of their own kind (a 5xx), never with 'Invalid credentials' and
\* never with a 401.
C14_StoreFailureDistinct ==
    [][\A c \in Clients :
          ReadFails(c) =>
              /\ last'[c].resp.status >= 500
              /\ last'[c].resp \notin {InvalidCredentials, NotLoggedIn, UserNotFound}]_vars

\* The user was marked verified by the consumption of a token.
MarkedVerified(u) == "id" \in DOMAIN u /\ u.id \in verified

\* C15: the scenario signup(e, p), login(e, p), consume the token,
\* login(e, p), whoAmI.  A client's login that directly follows its own
\* successful signup with the same email and password, with no token
\* consumed for the user, fails, and not with InvalidCredentials; whoAmI
\* directly after a successful login answers 200 with the user of that
\* email, email_verified true and no password_hash.
C15_VerificationScenario ==
    [][\A c \in Clients :
          /\ (/\ LoginFinish(c)
              /\ SignedUp(c)
              /\ last[c].email = req[c].entry.email
              /\ last[c].password = req[c].password
              /\ \A u \in req[c].user : ~MarkedVerified(u))
                 => /\ last'[c].resp # Success
                    /\ last'[c].resp # InvalidCredentials
          /\ (Me(c) /\ last[c].op = "login" /\ last[c].resp = Success)
                 => /\ last'[c].resp.status = 200
                    /\ \A u \in last'[c].resp.user :
                         /\ Field(u, "email") = last[c].email
                         /\ EmailVerified(u)
                         /\ "password_hash" \notin DOMAIN u]_vars

\* C16: every user record created by signup has email_verified false; a user
\* becomes verified only in a step that consumes a verification token with
\* success, and a verified user stays verified.
C16_VerifiedOnlyByToken ==
    [][/\ \A c \in Clients :
            SignupFinish(c) =>
                /\ "email_verified" \in DOMAIN file'[Len(file')]
                /\ ~EmailVerified(file'[Len(file')])
                /\ ~MarkedVerified(file'[Len(file')])
       /\ verified \subseteq verified'
       /\ verified' # verified =>
            \E t \in DOMAIN tokens :
                /\ ConsumeToken(t)
                /\ consumed'.result = "ok"
                /\ verified' = verified \cup {tokens[t].user_id}]_vars

\* C17: a verification token is consumed at most once.  A consume of a token
\* that is neither consumed nor expired succeeds; every consume of a token
\* that was consumed before fails with AlreadyConsumed and changes nothing;
\* so of all the consumes of one token, in whatever order they are served,
\* exactly one succeeds.
C17_TokenConsumedOnce ==
    [][\A t \in DOMAIN tokens :
          /\ tokens'[t].wins <= 1
          /\ ConsumeToken(t) =>
                /\ tokens[t].consumed =>
                      /\ consumed'.result = "AlreadyConsumed"
                      /\ tokens' = tokens
                      /\ verified' = verified
                /\ (~tokens[t].consumed /\ now <= tokens[t].expires_at) =>
                      /\ consumed'.result = "ok"
                      /\ tokens'[t].consumed
                      /\ tokens'[t].wins = 1]_vars

\* A token was consumed with success, and a later consume of it was refused.
C17_Witness ==
    /\ consumed.result = "AlreadyConsumed"
    /\ tokens[consumed.token].wins = 1

\* C18: a verification token older than its 24-hour TTL never grants
\* verification: its consume does not succeed and marks no user verified,
\* and when the owning user is not verified the consume fails with Expired
\* and the user stays not verified.
C18_ExpiredTokenRefused ==
    [][\A t \in DOMAIN tokens :
          (ConsumeToken(t) /\ now > tokens[t].expires_at) =>
              /\ consumed'.result # "ok"
              /\ verified' = verified
              /\ tokens' = tokens
              /\ tokens[t].user_id \notin verified =>
                    /\ consumed'.result = "Expired"
                    /\ tokens[t].user_id \notin verified']_vars

\* The consume of a token of a user who is not verified failed with Expired.
C18_Witness ==
    /\ consumed.result = "Expired"
    /\ tokens[consumed.token].user_id \notin verified
    /\ now > tokens[consumed.token].expires_at

\* C19: a session credential has a bounded lifetime.  Once SessionMaxAge
\* hours have passed since a login set the session's user id, whoAmI on that
\* session answers 401 and returns no profile.
C19_SessionLifetimeBounded ==
    [][\A c \in Clients :
          (/\ Me(c)
           /\ session[c] # NoSession
           /\ now >= issued[c] + SessionMaxAge)
              => /\ last'[c].resp.status = 401
                 /\ last'[c].resp.user = {}]_vars

C21_HashNeverEmpty ==
    [][/\ \A i \in 1..Len(file') :
            /\ "password_hash" \in DOMAIN file'[i]
            /\ \E q \in PartPasswords \ {Missing}, salt \in Salts :
                  file'[i].password_hash = BcryptHash(q, salt)
       /\ \A c \in Clients :
            (/\ req[c] = Idle
             /\ last'[c] # last[c]
             /\ last'[c].op = "signup"
             /\ last'[c].password = Missing) => file' = file]_vars

\* A signup without a password has ended, after another signup stored a
\* record.
C21_Witness ==
    /\ Len(file) > 0
    /\ \E c \in Clients :
          /\ last[c].op = "signup"
          /\ last[c].password = Missing
          /\ ~last[c].found

\* C22: password verification never raises.  A login for an existing email
\* whose password does not match, a missing password included, is answered
\* with InvalidCredentials: when the comparison resolves to no match, and
\* when the request carries no password.
C22_MismatchNeverRaises ==
    [][\A c \in Clients :
          /\ (LoginFinish(c) /\ last'[c].resp # Success)
                 => last'[c].resp = InvalidCredentials
          /\ (/\ req[c] = Idle
              /\ last'[c] # last[c]
              /\ last'[c].op = "login"
              /\ last'[c].found
              /\ last'[c].password = Missing)
                 => last'[c].resp = InvalidCredentials]_vars

\* C23: every request receives a response, also when hashing or the store
\* raises an error in the handler, and no request ends the server process.
C23_EveryRequestAnswered ==
    /\ alive
    /\ \A c \in Clients : last[c].op # "none" => last[c].resp # NoResponse

\* C24: a signup whose email is missing is rejected: it is not answered with
\* success and adds no record to the store.
C24_MissingEmailRejected ==
    [][\A c \in Clients :
          (/\ last'[c] # last[c]
           /\ last'[c].op = "signup"
           /\ last'[c].email = Missing)
              => /\ last'[c].resp # Success
                 /\ file' = file]_vars

\* C25: whoAmI mutates no state.  A whoAmI request, answered with a profile
\* or with an error, leaves the store and every session as they were, and
\* a session loses its user id in a logout of its client only.
C25_WhoAmIReadOnly ==
    [][\A c \in Clients :
          /\ Me(c) => (file' = file /\ session' = session)
          /\ (session[c] # NoSession /\ session'[c] = NoSession) => Logout(c)]_vars

\* C26: a signup that fails because the email already exists changes
\* nothing: the store holds the same records as before the request, and no
\* session, the requesting one included, gets another user id.
C26_DuplicateSignupNoEffect ==
    [][\A c \in Clients, body \in SignupBodies(CaseEmails, CasePasswords) :
          (SignupStart(c, body) /\ req'[c] = Idle /\ last'[c].resp = EmailExists)
              => /\ file' = file
                 /\ session' = session
                 /\ nextId' = nextId]_vars

\* A signup was answered with 'Email already exists'.
C26_Witness ==
    \E c \in Clients :
        /\ last[c].op = "signup"
        /\ last[c].found
        /\ last[c].resp = EmailExists

\* C27: login, whoAmI and logout never write the user store: every step of
\* these handlers leaves the records of the store and all their fields as
\* they were, and a step that changes the store is the end of a signup.
C27_OnlySignupWrites ==
    [][/\ \A c \in Clients :
            (LoginFinish(c) \/ Me(c) \/ Logout(c)) => file' = file
       /\ \A c \in Clients, body \in LoginBodies(FaultEmails, FaultPasswords) :
            LoginStart(c, body) => file' = file
       /\ file' # file => \E c \in Clients : SignupFinish(c)]_vars

\* The store holds a record while a login was answered with success, a
\* whoAmI with a profile and a logout with success.
C27_Witness ==
    /\ Len(file) > 0
    /\ \E c \in Clients : last[c].op \in {"me", "logout"} /\ last[c].sessBefore # NoSession
    /\ \E c \in Clients : last[c].op = "login" /\ last[c].found

\* The record was read from the store by a signup that is still hashing.
InSnapshot(v) ==
    \E c \in Clients :
        /\ req[c].pc = "hashing"
        /\ \E i \in 1..Len(req[c].users) : req[c].users[i] = v

\* C28: every record has an id from its creation, no two records of the
\* store have the same id, and no step changes the id of an existing
\* record: a record of the store is either the one the step created, with
\* an id no record had before, or a record that was written before, with
\* the id and the fields it was written with.
C28_IdsUniqueImmutable ==
    [][/\ \A i, j \in 1..Len(file') : file'[i].id = file'[j].id => i = j
       /\ \A j \in 1..Len(file') :
            /\ "id" \in DOMAIN file'[j]
            /\ \/ file'[j].id = nextId /\ nextId' = nextId + 1
               \/ \E i \in 1..Len(file) : file[i] = file'[j]
               \/ InSnapshot(file'[j])
       /\ \A i \in 1..Len(file) : file[i].id < nextId]_vars

\* The store holds two records.
C28_Witness == Len(file) >= 2

\* C29: a failed login leaves the session as it was.  The step that answers
\* a login with 'Invalid credentials' keeps the session's user id, and a
\* whoAmI that directly follows a failed login on a session that resolved
\* to user A, while A's record is in the store, returns A's profile.
C29_FailedLoginKeepsSession ==
    [][\A c \in Clients :
          /\ (/\ last'[c] # last[c]
              /\ last'[c].op = "login"
              /\ last'[c].resp = InvalidCredentials)
                 => session'[c] = session[c]
          /\ (/\ Me(c)
              /\ last[c].op = "login"
              /\ last[c].resp = InvalidCredentials
              /\ last[c].sessBefore # NoSession
              /\ FindById(file, last[c].sessBefore) # {})
                 => /\ last'[c].resp.status = 200
                    /\ \A u \in last'[c].resp.user : u.id = last[c].sessBefore
                    /\ last'[c].resp.user # {}]_vars

\* A login with a wrong password has failed on a session that a login had
\* given a user id, whose record is in the store, and the session still
\* carries that id.
C29_Witness ==
    \E c \in Clients :
        /\ last[c].op = "login"
        /\ last[c].found
        /\ last[c].resp = InvalidCredentials
        /\ last[c].sessBefore # NoSession
        /\ auth[c] = "login"
        /\ session[c] = last[c].sessBefore
        /\ FindById(file, session[c]) # {}
        /\ nreq < MaxRequests

\* C30: sessions are isolated.  A step of a login (answered with success or
\* not) or a logout of one client leaves the user id of every other
\* client's session as it was.
C30_SessionsIsolated ==
    [][\A c \in Clients :
          (\/ \E body \in LoginBodies(PartEmails, PartPasswords) : LoginStart(c, body)
           \/ LoginFinish(c)
           \/ Logout(c))
              => \A d \in Clients \ {c} : session'[d] = session[d]]_vars

\* C31: store initialisation at process start never overwrites an existing
\* users file: a restart leaves every record of the store as it was, and a
\* login for an email that is in the store finds its user, after a restart
\* as before.
C31_RestartKeepsStore ==
    [][/\ Restart => file' = file
       /\ \A c \in Clients, body \in LoginBodies(PartEmails, PartPasswords) :
            (LoginStart(c, body) /\ body.email \in StoredEmails) =>
                IF req'[c] = Idle THEN last'[c].found ELSE req'[c].entry.found]_vars

\* The process has exited and was started again (a session that a login
\* gave a user id has lost it without a logout), and a login after the
\* restart has succeeded for a user stored before.
C31_Witness ==
    /\ variant = "server_js"
    /\ alive
    /\ \E c, d \in Clients :
          /\ auth[c] = "login"
          /\ session[c] = NoSession
          /\ last[d].op = "login"
          /\ last[d].resp = Success
          /\ session[d] # NoSession

====
